---- MODULE Spec2Model ----
(***************************************************************************)
(* A model of the myradio client library: the Track accessors of           *)
(* tracks.go and the user accessors of user.go.                            *)
(*                                                                         *)
(* Strings that the code scans or parses are sequences of one-character    *)
(* strings (<<"1", ":", "0", "2">>); paths and error values are strings.   *)
(* A uint64 is a sequence of U64Bytes little-endian bytes, so that the     *)
(* code's arithmetic wraps at 2^64 exactly as Go's does.                   *)
(***************************************************************************)
EXTENDS Naturals, Sequences, FiniteSets, TLC

VARIABLES
    track,      \* the Track the methods of tracks.go are called on
    op,         \* the operation that has run ("none": no call made yet)
    arg,        \* the id the call was given (a method of Track: the Track's own)
    requests,   \* the paths handed to Session.apiRequest during the call
    response,   \* what Session.apiRequest returned to the call
    ret         \* what the call returned to its caller

vars == <<track, op, arg, requests, response, ret>>

Nil == "nil"

(***************************************************************************)
(* Bounds of the model.                                                    *)
(***************************************************************************)
MaxLen == 5          \* every Length string up to this many characters
MaxIntro == 20       \* every small Intro value up to this
MaxID == 12          \* track and user ids 0..MaxID
MaxEntries == 3      \* officership entries in one payload
WideBytes == 12      \* bytes of the exact (non-wrapping) arithmetic of the claims

(***************************************************************************)
(* uint64 arithmetic on little-endian bytes.                               *)
(***************************************************************************)
LimbBase == 2^8
U64Bytes == 8

RECURSIVE FromNat(_, _)
FromNat(n, k) ==
    IF k = 0 THEN <<>> ELSE <<n % LimbBase>> \o FromNat(n \div LimbBase, k - 1)

U64(n) == FromNat(n, U64Bytes)

\* x * c + carry over the bytes i.. of x: the low Len(x) bytes and the carry out.
RECURSIVE MulAddRec(_, _, _, _)
MulAddRec(x, c, carry, i) ==
    IF i > Len(x)
    THEN [val |-> <<>>, carry |-> carry]
    ELSE LET t == x[i] * c + carry
             r == MulAddRec(x, c, t \div LimbBase, i + 1)
         IN  [val |-> <<t % LimbBase>> \o r.val, carry |-> r.carry]

\* x + y + carry over the bytes i.. of x and y (of one length).
RECURSIVE AddRec(_, _, _, _)
AddRec(x, y, carry, i) ==
    IF i > Len(x)
    THEN [val |-> <<>>, carry |-> carry]
    ELSE LET t == x[i] + y[i] + carry
             r == AddRec(x, y, t \div LimbBase, i + 1)
         IN  [val |-> <<t % LimbBase>> \o r.val, carry |-> r.carry]

\* Go's uint64 * and + : the result modulo 2^64.
Mul64(x, c) == MulAddRec(x, c, 0, 1).val
Add64(x, y) == AddRec(x, y, 0, 1).val

(***************************************************************************)
(* fmt.Sscan into *uint64 operands (tracks.go:89), as package fmt scans:   *)
(* each operand skips leading space, reads an optional base prefix and     *)
(* the digits of that base, and is converted by strconv.ParseUint(tok, 0,  *)
(* 64). Input left over after the last operand is not an error.            *)
(* The digit sets leave out '_', which no input of the model contains.     *)
(***************************************************************************)
\* io.EOF or io.ErrUnexpectedEOF: the input ended before the operand
ErrEOF == "EOF"
ErrExpectedInteger == "expected integer"
ErrSyntax == "invalid syntax"
ErrRange == "value out of range"

BinaryDigits == {"0", "1"}
OctalDigits == {"0", "1", "2", "3", "4", "5", "6", "7"}
DecimalDigits == OctalDigits \cup {"8", "9"}
HexLetters == {"a", "b", "c", "d", "e", "f", "A", "B", "C", "D", "E", "F"}
HexadecimalDigits == DecimalDigits \cup HexLetters

DigitVal(c) ==
    CASE c = "0" -> 0 [] c = "1" -> 1 [] c = "2" -> 2 [] c = "3" -> 3
      [] c = "4" -> 4 [] c = "5" -> 5 [] c = "6" -> 6 [] c = "7" -> 7
      [] c = "8" -> 8 [] c = "9" -> 9
      [] c \in {"a", "A"} -> 10 [] c \in {"b", "B"} -> 11
      [] c \in {"c", "C"} -> 12 [] c \in {"d", "D"} -> 13
      [] c \in {"e", "E"} -> 14 [] c \in {"f", "F"} -> 15
      [] OTHER -> 36

\* strings.Replace(s, ":", " ", -1)
RECURSIVE Replace(_)
Replace(s) ==
    IF s = <<>> THEN <<>>
    ELSE <<IF Head(s) = ":" THEN " " ELSE Head(s)>> \o Replace(Tail(s))

IsSpace(c) == c \in {" ", "\t", "\n", "\r"}

RECURSIVE SkipSpace(_)
SkipSpace(s) == IF s # <<>> /\ IsSpace(Head(s)) THEN SkipSpace(Tail(s)) ELSE s

\* for s.accept(digits) {} : the longest prefix of s made of digits.
RECURSIVE AcceptAll(_, _)
AcceptAll(s, digits) ==
    IF s # <<>> /\ Head(s) \in digits
    THEN <<Head(s)>> \o AcceptAll(Tail(s), digits)
    ELSE <<>>

\* ss.scanBasePrefix: a leading 0 selects octal, 0b binary, 0o octal, 0x hex.
scanBasePrefix(s) ==
    IF s = <<>> \/ Head(s) # "0"
    THEN [digits |-> DecimalDigits, found |-> FALSE, buf |-> <<>>, rest |-> s]
    ELSE LET r == Tail(s)
             next == IF r = <<>> THEN "" ELSE Head(r)
         IN  CASE next \in {"b", "B"} ->
                    [digits |-> BinaryDigits, found |-> TRUE,
                     buf |-> <<"0", next>>, rest |-> Tail(r)]
               [] next \in {"o", "O"} ->
                    [digits |-> OctalDigits, found |-> TRUE,
                     buf |-> <<"0", next>>, rest |-> Tail(r)]
               [] next \in {"x", "X"} ->
                    [digits |-> HexadecimalDigits, found |-> TRUE,
                     buf |-> <<"0", next>>, rest |-> Tail(r)]
               [] OTHER ->
                    [digits |-> OctalDigits, found |-> TRUE,
                     buf |-> <<"0">>, rest |-> r]

\* strconv.ParseUint(tok, 0, 64): the digits of tok in the given base.
RECURSIVE ParseDigits(_, _, _)
ParseDigits(ds, base, acc) ==
    IF ds = <<>> THEN [err |-> Nil, val |-> acc]
    ELSE IF DigitVal(Head(ds)) >= base THEN [err |-> ErrSyntax, val |-> U64(0)]
    ELSE LET r == MulAddRec(acc, base, DigitVal(Head(ds)), 1)
         IN  IF r.carry # 0 THEN [err |-> ErrRange, val |-> U64(0)]
             ELSE ParseDigits(Tail(ds), base, r.val)

ParseUint(tok) ==
    IF tok = <<>> THEN [err |-> ErrSyntax, val |-> U64(0)]
    ELSE IF Head(tok) # "0" THEN ParseDigits(tok, 10, U64(0))
    ELSE IF Len(tok) >= 3 /\ tok[2] \in {"b", "B"}
         THEN ParseDigits(SubSeq(tok, 3, Len(tok)), 2, U64(0))
    ELSE IF Len(tok) >= 3 /\ tok[2] \in {"o", "O"}
         THEN ParseDigits(SubSeq(tok, 3, Len(tok)), 8, U64(0))
    ELSE IF Len(tok) >= 3 /\ tok[2] \in {"x", "X"}
         THEN ParseDigits(SubSeq(tok, 3, Len(tok)), 16, U64(0))
    ELSE ParseDigits(Tail(tok), 8, U64(0))

\* i, err := strconv.ParseUint(tok, base, 64) for the token p.buf \o more,
\* and the input after it
scanToken(p, more, n) ==
    [err |-> n.err, val |-> n.val,
     rest |-> SubSeq(p.rest, Len(more) + 1, Len(p.rest))]

\* ss.scanNumber(digits, haveDigits): p is what scanBasePrefix read, s1 the
\* input it read it from.
scanNumber(p, s1) ==
    IF ~p.found /\ Head(p.rest) \notin p.digits
    THEN [err |-> ErrExpectedInteger, val |-> U64(0), rest |-> s1]
    ELSE LET more == AcceptAll(p.rest, p.digits)
         IN  scanToken(p, more, ParseUint(p.buf \o more))

\* the operand that starts at s1, which does not start with space
scanOperand(s1) ==
    IF s1 = <<>> THEN [err |-> ErrEOF, val |-> U64(0), rest |-> s1]
    ELSE scanNumber(scanBasePrefix(s1), s1)

\* ss.scanUint('v', 64) for one operand: [err, val, rest].
scanUint(s) == scanOperand(SkipSpace(s))

\* ss.doScan: the operands are scanned in order and the first error ends the
\* scan; vals are the operands scanned so far, k the number still to scan.
RECURSIVE doScan(_, _, _)
doScan(s, k, vals) ==
    IF k = 0 THEN [err |-> Nil, vals |-> vals]
    ELSE LET r == scanUint(s)
         IN  IF r.err # Nil THEN [err |-> r.err, vals |-> vals]
             ELSE doScan(r.rest, k - 1, Append(vals, r.val))

\* fmt.Sscan(s, &hours, &minutes, &seconds)
Sscan3(s) == doScan(s, 3, <<>>)

(***************************************************************************)
(* Track (tracks.go:54) and its methods.                                   *)
(***************************************************************************)
Track(id, length, intro) == [ID |-> id, Length |-> length, Intro |-> intro]

LengthSec(t) ==
    LET sc == Sscan3(Replace(t.Length))
    IN  IF sc.err # Nil THEN [val |-> U64(0), err |-> sc.err]
        ELSE [val |-> Add64(Add64(Mul64(Mul64(sc.vals[1], 60), 60),
                                  Mul64(sc.vals[2], 60)),
                            sc.vals[3]),
              err |-> Nil]

\* LengthUsec without its error check
LengthUsec_DropsError(t) ==
    [val |-> Mul64(LengthSec(t).val, 1000000), err |-> Nil]

LengthUsec(t) ==
    LET secs == LengthSec(t)
    IN  IF secs.err # Nil THEN [val |-> U64(0), err |-> secs.err]
        ELSE [val |-> Mul64(secs.val, 1000000), err |-> Nil]

\* IntroUsec in milliseconds
IntroUsec_Millis(t) == Mul64(t.Intro, 1000)

IntroUsec(t) == Mul64(t.Intro, 1000000)

(***************************************************************************)
(* The Track values the methods are called on.                             *)
(***************************************************************************)
Alphabet == {"0", "1", "8", ":", "a"}

Strs(n) == UNION {[1..k -> Alphabet] : k \in 0..n}

Len_1_02_03 == <<"1", ":", "0", "2", ":", "0", "3">>
Len_1_08_09 == <<"1", ":", "0", "8", ":", "0", "9">>
Len_00_03_08 == <<"0", "0", ":", "0", "3", ":", "0", "8">>
Len_1_02_03_04 == <<"1", ":", "0", "2", ":", "0", "3", ":", "0", "4">>
Len_12_34_56 == <<"1", "2", ":", "3", "4", ":", "5", "6">>
Len_spaces == <<"1", " ", "2", " ", "3">>
\* 5124095577 hours are 18446744077200 seconds: more than (2^64 - 1) / 10^6
Len_long == <<"5", "1", "2", "4", "0", "9", "5", "5", "7", "7",
              ":", "0", ":", "0">>
\* 2^64 hours
Len_range == <<"1", "8", "4", "4", "6", "7", "4", "4", "0", "7", "3", "7",
               "0", "9", "5", "5", "1", "6", "1", "6", ":", "0", ":", "0">>

LengthSamples ==
    {Len_1_02_03, Len_1_08_09, Len_00_03_08, Len_1_02_03_04, Len_12_34_56,
     Len_spaces, Len_long, Len_range}

Lengths == Strs(MaxLen) \cup LengthSamples

\* floor((2^64 - 1) / 10^6) = 18446744073709, the largest Intro whose
\* microseconds fit a uint64, and the values around it
MaxExactDigits == <<"1", "8", "4", "4", "6", "7", "4", "4", "0", "7", "3",
                    "7", "0", "9">>
MaxExactIntro == ParseDigits(MaxExactDigits, 10, U64(0)).val
MaxU64 == [i \in 1..U64Bytes |-> LimbBase - 1]

Intros ==
    {U64(n) : n \in 0..MaxIntro}
        \cup {U64(3723), MaxExactIntro, Add64(MaxExactIntro, U64(1)), MaxU64}

IDs == 0..MaxID

Tracks ==
    {Track(1, l, U64(0)) : l \in Lengths}
        \cup {Track(i, Len_1_02_03, n) : i \in {1, MaxID}, n \in Intros}

\* What a call returns is its error and its result under the result's name
\* (secs, usecs, track, title, album, bio, name, profilephoto, officerships,
\* shows); a call that panics returns nothing.
Panic == [err |-> Nil, panic |-> TRUE]
NoRet == [err |-> Nil, panic |-> FALSE]

\* a nil *json.RawMessage
NilData == [kind |-> "nil"]
NoResponse == [err |-> Nil, data |-> NilData]

(***************************************************************************)
(* The Track methods that make no request, called on a Track.              *)
(***************************************************************************)
TrackInit ==
    /\ track \in Tracks
    /\ op = "none"
    /\ arg = track.ID
    /\ requests = <<>>
    /\ response = NoResponse
    /\ ret = NoRet

CallLengthSec ==
    /\ op = "none"
    /\ op' = "LengthSec"
    /\ ret' = LET r == LengthSec(track)
              IN  [secs |-> r.val, err |-> r.err, panic |-> FALSE]
    /\ UNCHANGED <<track, arg, requests, response>>

CallLengthUsec ==
    /\ op = "none"
    /\ op' = "LengthUsec"
    /\ ret' = LET r == LengthUsec(track)
              IN  [usecs |-> r.val, err |-> r.err, panic |-> FALSE]
    /\ UNCHANGED <<track, arg, requests, response>>

CallIntroUsec ==
    /\ op = "none"
    /\ op' = "IntroUsec"
    /\ ret' = [usecs |-> IntroUsec(track), err |-> Nil, panic |-> FALSE]
    /\ UNCHANGED <<track, arg, requests, response>>

\* the caller takes the result; the library keeps no state between calls
Return ==
    /\ op # "none"
    /\ op' = "none"
    /\ requests' = <<>>
    /\ response' = NoResponse
    /\ ret' = NoRet
    /\ arg' = track.ID
    /\ UNCHANGED track

TrackNext == CallLengthSec \/ CallLengthUsec \/ CallIntroUsec \/ Return

TrackSpec == TrackInit /\ [][TrackNext]_vars

(***************************************************************************)
(* Session.apiRequest and encoding/json, as the accessors use them.        *)
(* A response is an error, or no error and a *json.RawMessage that may be  *)
(* nil. A payload is a JSON value by kind, its value under the kind's name; *)
(* "malformed" is a payload that is not JSON. An object payload carries    *)
(* the fields the target type decodes.                                     *)
(***************************************************************************)
JString(s) == [kind |-> "string", string |-> s]
JNumber(n) == [kind |-> "number", number |-> n]
JObject(r) == [kind |-> "object", object |-> r]
JArray(a) == [kind |-> "array", array |-> a]
JNull == [kind |-> "null"]
JMalformed == [kind |-> "malformed"]

ErrJSONSyntax == "json: invalid character"
ErrJSONType(kind, type) ==
    "json: cannot unmarshal " \o kind \o " into Go value of type " \o type

TransportErrors == <<"transport: connection refused", "transport: status 500">>

\* the responses apiRequest can give when the payloads are `payloads`
Responses(payloads) ==
    [i \in 1..Len(TransportErrors) |->
        [err |-> TransportErrors[i], data |-> NilData]]
        \o <<[err |-> Nil, data |-> NilData]>>
        \o [i \in 1..Len(payloads) |-> [err |-> Nil, data |-> payloads[i]]]

\* json.Unmarshal(data, &v) for v of JSON kind `want`, holding `zero` before
Unmarshal(data, want, type, zero) ==
    CASE data.kind = "malformed" -> [val |-> zero, err |-> ErrJSONSyntax]
      [] data.kind = "null" -> [val |-> zero, err |-> Nil]
      [] data.kind = want -> [val |-> data[want], err |-> Nil]
      [] OTHER -> [val |-> zero, err |-> ErrJSONType(data.kind, type)]

\* fmt.Sprintf("%d", n)
Digit(n) ==
    CASE n = 0 -> "0" [] n = 1 -> "1" [] n = 2 -> "2" [] n = 3 -> "3"
      [] n = 4 -> "4" [] n = 5 -> "5" [] n = 6 -> "6" [] n = 7 -> "7"
      [] n = 8 -> "8" [] n = 9 -> "9"

RECURSIVE Itoa(_)
Itoa(n) == IF n < 10 THEN Digit(n) ELSE Itoa(n \div 10) \o Digit(n % 10)

(***************************************************************************)
(* tracks.go: the accessors that make a request. Each gives the requests   *)
(* it made and what it returned, for the response the session gave.        *)
(***************************************************************************)
NilPtr == [nil |-> TRUE]
Ptr(v) == [nil |-> FALSE, elem |-> v]

ZeroTrack == Track(0, <<>>, U64(0))
ZeroAlbum == [ID |-> 0, Title |-> ""]

GetTrack(trackid, resp) ==
    LET returns(v, e) == [track |-> v, err |-> e, panic |-> FALSE]
    IN  [requests |-> <<"/track/" \o Itoa(trackid)>>,
         ret |-> IF resp.err # Nil THEN returns(NilPtr, resp.err)
                 ELSE IF resp.data.kind = "nil" THEN Panic
                 ELSE LET d == Unmarshal(resp.data, "object", "Track", ZeroTrack)
                      IN  IF d.err # Nil THEN returns(NilPtr, d.err)
                          ELSE returns(Ptr(d.val), Nil)]

\* GetTrackTitle asking once more after a transport error
GetTrackTitle_Retry(trackid, resp) ==
    LET returns(v, e) == [title |-> v, err |-> e, panic |-> FALSE]
        path == "/track/" \o Itoa(trackid) \o "/title"
    IN  [requests |-> IF resp.err # Nil THEN <<path, path>> ELSE <<path>>,
         ret |-> IF resp.err # Nil THEN returns("", resp.err)
                 ELSE IF resp.data.kind = "nil" THEN Panic
                 ELSE LET d == Unmarshal(resp.data, "string", "string", "")
                      IN  IF d.err # Nil THEN returns("", d.err)
                          ELSE returns(d.val, Nil)]

GetTrackTitle(trackid, resp) ==
    LET returns(v, e) == [title |-> v, err |-> e, panic |-> FALSE]
    IN  [requests |-> <<"/track/" \o Itoa(trackid) \o "/title">>,
         ret |-> IF resp.err # Nil THEN returns("", resp.err)
                 ELSE IF resp.data.kind = "nil" THEN Panic
                 ELSE LET d == Unmarshal(resp.data, "string", "string", "")
                      IN  IF d.err # Nil THEN returns("", d.err)
                          ELSE returns(d.val, Nil)]

GetTrackAlbum(trackid, resp) ==
    LET returns(v, e) == [album |-> v, err |-> e, panic |-> FALSE]
    IN  [requests |-> <<"/track/" \o Itoa(trackid) \o "/album">>,
         ret |-> IF resp.err # Nil THEN returns(NilPtr, resp.err)
                 ELSE IF resp.data.kind = "nil" THEN Panic
                 ELSE LET d == Unmarshal(resp.data, "object", "Album", ZeroAlbum)
                      IN  IF d.err # Nil THEN returns(NilPtr, d.err)
                          ELSE returns(Ptr(d.val), Nil)]

GetAlbum(t, resp) == GetTrackAlbum(t.ID, resp)

(***************************************************************************)
(* time.Parse, for a layout given as its chunks ("2006" the year, "01"     *)
(* the month, "02" the day, "15" the hour, "04" the minute, anything else  *)
(* literal text). A time is [year, month, day, hour, min].                 *)
(***************************************************************************)
Time(y, mo, d, h, mi) ==
    [year |-> y, month |-> mo, day |-> d, hour |-> h, min |-> mi]

\* the zero time.Time: January 1, year 1, 00:00
ZeroTime == Time(1, 1, 1, 0, 0)

RECURSIVE Join(_)
Join(s) == IF s = <<>> THEN "" ELSE Head(s) \o Join(Tail(s))

ParseError(value, msg) == "parsing time " \o Join(value) \o ": " \o msg

IsDigit(s, i) == i <= Len(s) /\ s[i] \in DecimalDigits

Drop(s, n) == SubSeq(s, n + 1, Len(s))

\* getnum: one or two digits, two when fixed
getnum(s, fixed) ==
    IF ~IsDigit(s, 1) THEN [bad |-> TRUE, n |-> 0, rest |-> s]
    ELSE IF ~IsDigit(s, 2)
         THEN IF fixed THEN [bad |-> TRUE, n |-> 0, rest |-> s]
              ELSE [bad |-> FALSE, n |-> DigitVal(s[1]), rest |-> Drop(s, 1)]
    ELSE [bad |-> FALSE, n |-> DigitVal(s[1]) * 10 + DigitVal(s[2]),
          rest |-> Drop(s, 2)]

\* stdLongYear: four characters, all digits
getyear(s) ==
    IF Len(s) < 4 \/ \E i \in 1..4 : ~IsDigit(s, i)
    THEN [bad |-> TRUE, n |-> 0, rest |-> s]
    ELSE [bad |-> FALSE,
          n |-> DigitVal(s[1]) * 1000 + DigitVal(s[2]) * 100
                    + DigitVal(s[3]) * 10 + DigitVal(s[4]),
          rest |-> Drop(s, 4)]

\* skip: a space of the layout matches any run of spaces, other text itself
skip(s, c) ==
    IF c = " "
    THEN IF s # <<>> /\ Head(s) # " " THEN [bad |-> TRUE, rest |-> s]
         ELSE [bad |-> FALSE, rest |-> SkipSpace(s)]
    ELSE IF s = <<>> \/ Head(s) # c THEN [bad |-> TRUE, rest |-> s]
    ELSE [bad |-> FALSE, rest |-> Tail(s)]

isLeap(year) == year % 4 = 0 /\ (year % 100 # 0 \/ year % 400 = 0)

daysIn(month, year) ==
    IF month = 2 THEN (IF isLeap(year) THEN 29 ELSE 28)
    ELSE IF month \in {4, 6, 9, 11} THEN 30
    ELSE 31

RECURSIVE ParseChunks(_, _, _, _, _)
ParseChunks(layout, i, value, rest, t) ==
    IF i > Len(layout)
    THEN IF rest # <<>>
         THEN [t |-> ZeroTime, err |-> ParseError(value, "extra text")]
         ELSE IF t.day < 1 \/ t.day > daysIn(t.month, t.year)
         THEN [t |-> ZeroTime, err |-> ParseError(value, "day out of range")]
         ELSE [t |-> t, err |-> Nil]
    ELSE LET c == layout[i]
             bad == [t |-> ZeroTime, err |-> ParseError(value, "cannot parse")]
             range(what) ==
                 [t |-> ZeroTime,
                  err |-> ParseError(value, what \o " out of range")]
         IN  CASE c = "2006" ->
                    LET g == getyear(rest)
                    IN  IF g.bad THEN bad
                        ELSE ParseChunks(layout, i + 1, value, g.rest,
                                         [t EXCEPT !.year = g.n])
               [] c = "01" ->
                    LET g == getnum(rest, TRUE)
                    IN  IF g.bad THEN bad
                        ELSE IF g.n <= 0 \/ 12 < g.n THEN range("month")
                        ELSE ParseChunks(layout, i + 1, value, g.rest,
                                         [t EXCEPT !.month = g.n])
               [] c = "02" ->
                    LET g == getnum(rest, TRUE)
                    IN  IF g.bad THEN bad
                        ELSE ParseChunks(layout, i + 1, value, g.rest,
                                         [t EXCEPT !.day = g.n])
               [] c = "15" ->
                    LET g == getnum(rest, FALSE)
                    IN  IF g.bad THEN bad
                        ELSE IF 24 <= g.n THEN range("hour")
                        ELSE ParseChunks(layout, i + 1, value, g.rest,
                                         [t EXCEPT !.hour = g.n])
               [] c = "04" ->
                    LET g == getnum(rest, TRUE)
                    IN  IF g.bad THEN bad
                        ELSE IF 60 <= g.n THEN range("minute")
                        ELSE ParseChunks(layout, i + 1, value, g.rest,
                                         [t EXCEPT !.min = g.n])
               [] OTHER ->
                    LET g == skip(rest, c)
                    IN  IF g.bad THEN bad
                        ELSE ParseChunks(layout, i + 1, value, g.rest, t)

TimeParse(layout, value) ==
    ParseChunks(layout, 1, value, value, Time(0, 1, 1, 0, 0))

\* the layout with the month before the day: "01/02/2006 15:04"
PhotoLayout_MonthFirst ==
    <<"01", "/", "02", "/", "2006", " ", "15", ":", "04">>

\* "02/01/2006 15:04" (user.go:64)
PhotoLayout == <<"02", "/", "01", "/", "2006", " ", "15", ":", "04">>
\* "2006-01-02" (user.go:79, user.go:85)
OfficershipLayout == <<"2006", "-", "01", "-", "02">>

(***************************************************************************)
(* user.go: the accessors.                                                 *)
(***************************************************************************)
Photo(id, raw) == [PhotoId |-> id, DateAddedRaw |-> raw, DateAdded |-> ZeroTime]
ZeroPhoto == Photo(0, <<>>)

Officership(id, from, till) ==
    [OfficerId |-> id, FromDateRaw |-> from, FromDate |-> ZeroTime,
     TillDateRaw |-> till, TillDate |-> ZeroTime]

ErrNoBio == "No bio set"
ErrNoPhoto == "No profile picture set"

\* GetUserBio taking an empty bio for an absent one
GetUserBio_EmptyIsAbsent(id, resp) ==
    LET returns(v, e) == [bio |-> v, err |-> e, panic |-> FALSE]
    IN  [requests |-> <<"/user/" \o Itoa(id) \o "/bio/">>,
         ret |-> IF resp.err # Nil THEN returns("", resp.err)
                 ELSE IF resp.data.kind = "nil" THEN returns("", ErrNoBio)
                 ELSE LET d == Unmarshal(resp.data, "string", "string", "")
                      IN  IF d.err = Nil /\ d.val = "" THEN returns("", ErrNoBio)
                          ELSE returns(d.val, d.err)]

GetUserBio(id, resp) ==
    LET returns(v, e) == [bio |-> v, err |-> e, panic |-> FALSE]
    IN  [requests |-> <<"/user/" \o Itoa(id) \o "/bio/">>,
         ret |-> IF resp.err # Nil THEN returns("", resp.err)
                 ELSE IF resp.data.kind = "nil" THEN returns("", ErrNoBio)
                 ELSE LET d == Unmarshal(resp.data, "string", "string", "")
                      IN  returns(d.val, d.err)]

\* *data with data nil is a nil pointer dereference: the call panics
GetUserName(id, resp) ==
    LET returns(v, e) == [name |-> v, err |-> e, panic |-> FALSE]
    IN  [requests |-> <<"/user/" \o Itoa(id) \o "/name/">>,
         ret |-> IF resp.err # Nil THEN returns("", resp.err)
                 ELSE IF resp.data.kind = "nil" THEN Panic
                 ELSE LET d == Unmarshal(resp.data, "string", "string", "")
                      IN  returns(d.val, d.err)]

GetUserProfilePhoto(id, resp) ==
    LET returns(v, e) == [profilephoto |-> v, err |-> e, panic |-> FALSE]
    IN  [requests |-> <<"/user/" \o Itoa(id) \o "/profilephoto/">>,
         ret |-> IF resp.err # Nil THEN returns(ZeroPhoto, resp.err)
                 ELSE IF resp.data.kind = "nil" THEN returns(ZeroPhoto, ErrNoPhoto)
                 ELSE LET d == Unmarshal(resp.data, "object", "Photo", ZeroPhoto)
                      IN  IF d.err # Nil THEN returns(d.val, d.err)
                          ELSE LET p == TimeParse(PhotoLayout, d.val.DateAddedRaw)
                               IN  returns([d.val EXCEPT !.DateAdded = p.t], p.err)]

\* the body of the loop of user.go:77 for one entry: the entry as the body
\* leaves it and the error it returns with, if any
ParseEntryDates(v) ==
    LET from == TimeParse(OfficershipLayout, v.FromDateRaw)
        till == TimeParse(OfficershipLayout, v.FromDateRaw)
    IN  IF v.FromDateRaw # <<>> /\ from.err # Nil
        THEN [entry |-> [v EXCEPT !.FromDate = from.t], err |-> from.err]
        ELSE LET v1 == IF v.FromDateRaw # <<>>
                       THEN [v EXCEPT !.FromDate = from.t] ELSE v
             IN  IF v.TillDateRaw # <<>>
                 THEN [entry |-> [v1 EXCEPT !.TillDate = till.t],
                       err |-> till.err]
                 ELSE [entry |-> v1, err |-> Nil]

\* for k, v := range officerships, from entry k on
RECURSIVE ParseDatesFrom(_, _)
ParseDatesFrom(officerships, k) ==
    IF k > Len(officerships) THEN [val |-> officerships, err |-> Nil]
    ELSE LET e == ParseEntryDates(officerships[k])
             done == [officerships EXCEPT ![k] = e.entry]
         IN  IF e.err # Nil THEN [val |-> done, err |-> e.err]
             ELSE ParseDatesFrom(done, k + 1)

\* the loop going on after an error, so that the last error is returned
RECURSIVE ParseDatesKeepGoingFrom(_, _, _)
ParseDatesKeepGoingFrom(officerships, k, err) ==
    IF k > Len(officerships) THEN [val |-> officerships, err |-> err]
    ELSE LET e == ParseEntryDates(officerships[k])
         IN  ParseDatesKeepGoingFrom([officerships EXCEPT ![k] = e.entry],
                                     k + 1,
                                     IF e.err # Nil THEN e.err ELSE err)

ParseDates_KeepGoing(officerships) ==
    ParseDatesKeepGoingFrom(officerships, 1, Nil)

ParseDates(officerships) == ParseDatesFrom(officerships, 1)

GetUserOfficerships(id, resp) ==
    LET returns(v, e) == [officerships |-> v, err |-> e, panic |-> FALSE]
    IN  [requests |-> <<"/user/" \o Itoa(id) \o "/officerships/">>,
         ret |-> IF resp.err # Nil THEN returns(<<>>, resp.err)
                 ELSE IF resp.data.kind = "nil" THEN Panic
                 ELSE LET d == Unmarshal(resp.data, "array", "[]Officership", <<>>)
                      IN  IF d.err # Nil THEN returns(d.val, d.err)
                          ELSE LET r == ParseDates(d.val)
                               IN  returns(r.val, r.err)]

GetUserShowCredits(id, resp) ==
    LET returns(v, e) == [shows |-> v, err |-> e, panic |-> FALSE]
    IN  [requests |-> <<"/user/" \o Itoa(id) \o "/shows/">>,
         ret |-> IF resp.err # Nil THEN returns(<<>>, resp.err)
                 ELSE IF resp.data.kind = "nil" THEN Panic
                 ELSE LET d == Unmarshal(resp.data, "array", "[]ShowMeta", <<>>)
                      IN  returns(d.val, d.err)]

(***************************************************************************)
(* The responses the session gives in the model.                           *)
(***************************************************************************)
StringResponses ==
    Responses(<<JString(""), JString("Alice"), JNull, JNumber(5),
                JMalformed>>)

TrackResponses ==
    Responses(<<JObject(Track(7, Len_1_02_03, U64(5))), JNull, JString("x"),
                JMalformed>>)

AlbumResponses ==
    Responses(<<JObject([ID |-> 3, Title |-> "LP"]), JNull, JNumber(5),
                JMalformed>>)

ShowResponses ==
    Responses(<<JArray(<<>>), JArray(<<[ShowId |-> 1]>>), JNull,
                JString("x"), JMalformed>>)

\* the responses that are not the payload the accessor expects
OtherResponses == Responses(<<JNull, JString("x"), JMalformed>>)

Cat5(a, b, c, d, e) == a \o b \o c \o d \o e

PhotoDates ==
    {Cat5(d \o <<"/">>, mo \o <<"/">>, y \o sp, h \o <<":">>, mi) :
        d \in {<<"1", "5">>, <<"3", "1">>, <<"0", "0">>, <<"1">>},
        mo \in {<<"0", "6">>, <<"0", "2">>, <<"1", "2">>, <<"1", "3">>},
        y \in {<<"2", "0", "2", "1">>, <<"2", "0", "2", "0">>, <<"2", "1">>},
        sp \in {<<" ">>, <<"T">>},
        h \in {<<"1", "3">>, <<"9">>, <<"2", "4">>},
        mi \in {<<"4", "5">>, <<"6", "0">>, <<"5">>, <<"4", "5", "Z">>}}
        \cup {<<>>, <<"x">>}

Date_2020_01_01 == <<"2", "0", "2", "0", "-", "0", "1", "-", "0", "1">>
Date_2021_12_31 == <<"2", "0", "2", "1", "-", "1", "2", "-", "3", "1">>
Date_2021_13_01 == <<"2", "0", "2", "1", "-", "1", "3", "-", "0", "1">>

OfficershipDates ==
    {<<>>, Date_2020_01_01, Date_2021_12_31, Date_2021_13_01}

OfficershipEntries ==
    {Officership(4, from, till) : from, till \in OfficershipDates}

OfficershipLists ==
    UNION {[1..k -> OfficershipEntries] : k \in 0..MaxEntries}

\* the ids the accessors with many payloads are called with
FewIDs == {1, MaxID}

(***************************************************************************)
(* The accessors that make a request, called on a session.                 *)
(***************************************************************************)
Init ==
    /\ track \in {Track(i, Len_1_02_03, U64(0)) : i \in FewIDs}
    /\ op = "none"
    /\ arg = track.ID
    /\ requests = <<>>
    /\ response = NoResponse
    /\ ret = NoRet

CallGetTrack ==
    /\ op = "none"
    /\ \E id \in IDs, i \in 1..Len(TrackResponses) :
           LET resp == TrackResponses[i]
               r == GetTrack(id, resp)
           IN  /\ op' = "GetTrack"
               /\ arg' = id
               /\ requests' = r.requests
               /\ response' = resp
               /\ ret' = r.ret
               /\ UNCHANGED track

CallGetTrackTitle ==
    /\ op = "none"
    /\ \E id \in IDs, i \in 1..Len(StringResponses) :
           LET resp == StringResponses[i]
               r == GetTrackTitle(id, resp)
           IN  /\ op' = "GetTrackTitle"
               /\ arg' = id
               /\ requests' = r.requests
               /\ response' = resp
               /\ ret' = r.ret
               /\ UNCHANGED track

CallGetTrackAlbum ==
    /\ op = "none"
    /\ \E id \in IDs, i \in 1..Len(AlbumResponses) :
           LET resp == AlbumResponses[i]
               r == GetTrackAlbum(id, resp)
           IN  /\ op' = "GetTrackAlbum"
               /\ arg' = id
               /\ requests' = r.requests
               /\ response' = resp
               /\ ret' = r.ret
               /\ UNCHANGED track

CallGetAlbum ==
    /\ op = "none"
    /\ \E i \in 1..Len(AlbumResponses) :
           LET resp == AlbumResponses[i]
               r == GetAlbum(track, resp)
           IN  /\ op' = "GetAlbum"
               /\ arg' = track.ID
               /\ requests' = r.requests
               /\ response' = resp
               /\ ret' = r.ret
               /\ UNCHANGED track

CallGetUserBio ==
    /\ op = "none"
    /\ \E id \in IDs, i \in 1..Len(StringResponses) :
           LET resp == StringResponses[i]
               r == GetUserBio(id, resp)
           IN  /\ op' = "GetUserBio"
               /\ arg' = id
               /\ requests' = r.requests
               /\ response' = resp
               /\ ret' = r.ret
               /\ UNCHANGED track

CallGetUserName ==
    /\ op = "none"
    /\ \E id \in IDs, i \in 1..Len(StringResponses) :
           LET resp == StringResponses[i]
               r == GetUserName(id, resp)
           IN  /\ op' = "GetUserName"
               /\ arg' = id
               /\ requests' = r.requests
               /\ response' = resp
               /\ ret' = r.ret
               /\ UNCHANGED track

CallGetUserProfilePhoto ==
    /\ op = "none"
    /\ \E id \in FewIDs, i \in 0..Len(OtherResponses) :
           \E x \in IF i = 0 THEN PhotoDates ELSE {<<>>} :
               LET resp == IF i = 0
                           THEN [err |-> Nil, data |-> JObject(Photo(3, x))]
                           ELSE OtherResponses[i]
                   r == GetUserProfilePhoto(id, resp)
               IN  /\ op' = "GetUserProfilePhoto"
                   /\ arg' = id
                   /\ requests' = r.requests
                   /\ response' = resp
                   /\ ret' = r.ret
                   /\ UNCHANGED track

CallGetUserOfficerships ==
    /\ op = "none"
    /\ \E id \in FewIDs, i \in 0..Len(OtherResponses) :
           \E x \in IF i = 0 THEN OfficershipLists ELSE {<<>>} :
               LET resp == IF i = 0
                           THEN [err |-> Nil, data |-> JArray(x)]
                           ELSE OtherResponses[i]
                   r == GetUserOfficerships(id, resp)
               IN  /\ op' = "GetUserOfficerships"
                   /\ arg' = id
                   /\ requests' = r.requests
                   /\ response' = resp
                   /\ ret' = r.ret
                   /\ UNCHANGED track

CallGetUserShowCredits ==
    /\ op = "none"
    /\ \E id \in IDs, i \in 1..Len(ShowResponses) :
           LET resp == ShowResponses[i]
               r == GetUserShowCredits(id, resp)
           IN  /\ op' = "GetUserShowCredits"
               /\ arg' = id
               /\ requests' = r.requests
               /\ response' = resp
               /\ ret' = r.ret
               /\ UNCHANGED track

Next ==
    \/ CallGetTrack
    \/ CallGetTrackTitle
    \/ CallGetTrackAlbum
    \/ CallGetAlbum
    \/ CallGetUserBio
    \/ CallGetUserName
    \/ CallGetUserProfilePhoto
    \/ CallGetUserOfficerships
    \/ CallGetUserShowCredits
    \/ Return

Spec == Init /\ [][Next]_vars

(***************************************************************************)
(* Exact arithmetic for the claims: WideBytes bytes, wide enough that      *)
(* nothing the model computes wraps.                                       *)
(***************************************************************************)
Wide(n) == FromNat(n, WideBytes)
Widen(x) == x \o [i \in 1..(WideBytes - Len(x)) |-> 0]
WMul(x, c) == MulAddRec(x, c, 0, 1).val
WAdd(x, y) == AddRec(x, y, 0, 1).val
Low64(w) == SubSeq(w, 1, U64Bytes)

\* the decimal value of a run of decimal digits
RECURSIVE DecWide(_, _)
DecWide(ds, acc) ==
    IF ds = <<>> THEN acc
    ELSE DecWide(Tail(ds), MulAddRec(acc, 10, DigitVal(Head(ds)), 1).val)

\* the fields of a string between its colons
RECURSIVE SplitColon(_)
SplitColon(s) ==
    IF s = <<>> THEN << <<>> >>
    ELSE LET r == SplitColon(Tail(s))
         IN  IF Head(s) = ":" THEN << <<>> >> \o r
             ELSE << <<Head(s)>> \o r[1] >> \o Tail(r)

IsDecimal(f) == f # <<>> /\ \A i \in 1..Len(f) : f[i] \in DecimalDigits

\* H:M:S with H, M, S non-negative decimal integers
WellFormedLength(s) ==
    LET f == SplitColon(s)
    IN  Len(f) = 3 /\ \A i \in 1..3 : IsDecimal(f[i])

\* H*3600 + M*60 + S
ExactSeconds(s) ==
    LET f == SplitColon(s)
    IN  WAdd(WAdd(WMul(DecWide(f[1], Wide(0)), 3600),
                  WMul(DecWide(f[2], Wide(0)), 60)),
             DecWide(f[3], Wide(0)))

\* x <= y for two byte sequences of one length
RECURSIVE LeqFrom(_, _, _)
LeqFrom(x, y, i) ==
    IF i = 0 THEN TRUE
    ELSE IF x[i] # y[i] THEN x[i] < y[i]
    ELSE LeqFrom(x, y, i - 1)

Leq(x, y) == LeqFrom(x, y, Len(x))

(***************************************************************************)
(* C1: for every Length of the form H:M:S (H, M, S non-negative decimal    *)
(* integers) LengthSec returns H*3600 + M*60 + S and a nil error.          *)
(* Stated as the claim; the code reads a field with a leading 0 as octal   *)
(* and stops at an 8 or 9.                                                 *)
(***************************************************************************)
C1_LengthSecExact ==
    (op = "LengthSec" /\ WellFormedLength(track.Length))
        => /\ ret.err = Nil
           /\ Widen(ret.secs) = ExactSeconds(track.Length)

(***************************************************************************)
(* C2: LengthSec fails with a parse error, returning 0, for every Length   *)
(* that is not exactly three non-negative integers separated by colons,    *)
(* strings with more than three fields or trailing content included.       *)
(* Stated as the claim; the code ignores what follows the third integer.   *)
(***************************************************************************)
C2_LengthSecRejectsMalformed ==
    (op = "LengthSec" /\ ~WellFormedLength(track.Length))
        => /\ ret.err # Nil
           /\ ret.secs = U64(0)

(***************************************************************************)
(* C6 as claimed: IntroUsec returns exactly Intro * 1,000,000 for every    *)
(* uint64 Intro and never fails.                                           *)
(***************************************************************************)
C6_IntroUsecExact ==
    op = "IntroUsec"
        => /\ ret.err = Nil
           /\ Widen(ret.usecs) = WMul(Widen(track.Intro), 1000000)

(***************************************************************************)
(* C6 as amended: IntroUsec never fails and returns Intro * 1,000,000      *)
(* modulo 2^64, which is exactly Intro * 1,000,000 if and only if          *)
(* Intro <= 18,446,744,073,709.                                            *)
(***************************************************************************)
C6_IntroUsecMod2_64 ==
    op = "IntroUsec"
        => /\ ret.err = Nil
           /\ ret.usecs = Low64(WMul(Widen(track.Intro), 1000000))
           /\ (Widen(ret.usecs) = WMul(Widen(track.Intro), 1000000))
                  <=> Leq(track.Intro, MaxExactIntro)

\* 18,446,744,073,710 * 10^6 - 2^64 = 448,384
C6_Witness ==
    /\ op = "IntroUsec"
    /\ track.Intro = Add64(MaxExactIntro, U64(1))
    /\ ret.usecs = U64(448384)

(***************************************************************************)
(* C10 as claimed: LengthUsec fails exactly when LengthSec fails, with 0   *)
(* and the same error; when LengthSec succeeds with s, LengthUsec returns  *)
(* s * 1,000,000 and a nil error.                                          *)
(***************************************************************************)
C10_LengthUsecExact ==
    op = "LengthUsec"
        => LET s == LengthSec(track)
           IN  IF s.err # Nil
               THEN ret.err = s.err /\ ret.usecs = U64(0)
               ELSE ret.err = Nil
                    /\ Widen(ret.usecs) = WMul(Widen(s.val), 1000000)

(***************************************************************************)
(* C10 as amended: LengthUsec fails exactly when LengthSec fails, with 0   *)
(* and the same error; when LengthSec succeeds with s, LengthUsec returns  *)
(* s * 1,000,000 modulo 2^64 and a nil error.                              *)
(***************************************************************************)
C10_LengthUsecMod2_64 ==
    op = "LengthUsec"
        => LET s == LengthSec(track)
           IN  IF s.err # Nil
               THEN ret.err = s.err /\ ret.usecs = U64(0)
               ELSE ret.err = Nil
                    /\ ret.usecs = Low64(WMul(Widen(s.val), 1000000))

\* 18,446,744,077,200 * 10^6 - 2^64 = 3,490,448,384
C10_Witness ==
    /\ op = "LengthUsec"
    /\ track.Length = Len_long
    /\ ret.err = Nil
    /\ Widen(ret.usecs) # WMul(Widen(LengthSec(track).val), 1000000)

(***************************************************************************)
(* What the claims about the session accessors are stated with.            *)
(***************************************************************************)
\* the decimal text of the ids of the model, written out
DecimalText ==
    <<"0", "1", "2", "3", "4", "5", "6", "7", "8", "9", "10", "11", "12",
      "13", "14", "15", "16">>

Succeeded == response.err = Nil
HasPayload == response.err = Nil /\ response.data.kind # "nil"

(***************************************************************************)
(* C3: GetUserBio returns the "No bio set" error if and only if the        *)
(* request succeeded with an absent (nil) payload; a payload that is       *)
(* present decodes normally, and the JSON empty string gives bio = "" and  *)
(* a nil error.                                                            *)
(***************************************************************************)
C3_NoBioIffAbsentPayload ==
    op = "GetUserBio"
        => /\ ~ret.panic
           /\ (ret.err = ErrNoBio) <=> (Succeeded /\ response.data.kind = "nil")
           /\ (HasPayload /\ response.data.kind = "string")
                  => (ret.err = Nil /\ ret.bio = response.data.string)
           /\ (HasPayload /\ response.data.kind \in {"malformed", "number"})
                  => (ret.err \notin {Nil, ErrNoBio} /\ ret.bio = "")

C3_Witness ==
    /\ op = "GetUserBio"
    /\ HasPayload
    /\ response.data.kind = "string"
    /\ response.data.string = ""
    /\ ret.err = Nil
    /\ ret.bio = ""

(***************************************************************************)
(* C4: in GetUserOfficerships every entry's TillDate is the parse of its   *)
(* TillDateRaw (not of FromDateRaw) when that is non-empty, independently  *)
(* of the from-date, and an empty raw date leaves its date at the zero     *)
(* value. Stated as the claim, for payloads whose raw dates are all empty  *)
(* or well-formed; the code parses FromDateRaw into TillDate.              *)
(***************************************************************************)
DateOf(raw) ==
    IF raw = <<>> THEN ZeroTime ELSE TimeParse(OfficershipLayout, raw).t

WellFormedDates(e) ==
    /\ e.FromDateRaw # <<>>
           => TimeParse(OfficershipLayout, e.FromDateRaw).err = Nil
    /\ e.TillDateRaw # <<>>
           => TimeParse(OfficershipLayout, e.TillDateRaw).err = Nil

C4_TillDateParsedFromTillDateRaw ==
    (/\ op = "GetUserOfficerships"
     /\ HasPayload
     /\ response.data.kind = "array"
     /\ \A k \in 1..Len(response.data.array) :
            WellFormedDates(response.data.array[k]))
        => /\ ret.err = Nil
           /\ Len(ret.officerships) = Len(response.data.array)
           /\ \A k \in 1..Len(ret.officerships) :
                  /\ ret.officerships[k].FromDate = DateOf(ret.officerships[k].FromDateRaw)
                  /\ ret.officerships[k].TillDate = DateOf(ret.officerships[k].TillDateRaw)

(***************************************************************************)
(* C5: GetUserName has no special case for an absent payload: when the     *)
(* request succeeds with a nil payload the call returns a decode error     *)
(* (and not a semantic-absence error). Stated as the claim; the code       *)
(* dereferences the nil payload and panics.                                *)
(***************************************************************************)
C5_NameOfAbsentPayloadIsDecodeError ==
    (op = "GetUserName" /\ Succeeded /\ response.data.kind = "nil")
        => /\ ~ret.panic
           /\ ret.err \notin {Nil, ErrNoBio, ErrNoPhoto}

(***************************************************************************)
(* C7: GetUserProfilePhoto, given a payload that decodes, sets DateAdded   *)
(* to the time DateAddedRaw writes as day/month/year hour:minute (24-hour) *)
(* and returns a nil error; a DateAddedRaw that is no time written that    *)
(* way gives a non-nil error.                                              *)
(***************************************************************************)
Two(n) == <<Digit(n \div 10), Digit(n % 10)>>
Four(n) == Two(n \div 100) \o Two(n % 100)

\* the days of each month of a year of the Gregorian calendar
CalendarDays(y) ==
    <<31, IF (y % 4 = 0 /\ y % 100 # 0) \/ y % 400 = 0 THEN 29 ELSE 28,
      31, 30, 31, 30, 31, 31, 30, 31, 30, 31>>

PhotoTimes ==
    {t \in {Time(y, mo, d, h, mi) :
                y \in {2020, 2021}, mo \in {2, 6, 12}, d \in {15, 31},
                h \in {9, 13}, mi \in {45}} :
        t.day <= CalendarDays(t.year)[t.month]}

\* day/month/year hour:minute; the hour may drop its leading zero
PhotoTexts(t) ==
    {Two(t.day) \o <<"/">> \o Two(t.month) \o <<"/">> \o Four(t.year)
         \o <<" ">> \o h \o <<":">> \o Two(t.min) :
        h \in {Two(t.hour)}
                  \cup (IF t.hour < 10 THEN {<<Digit(t.hour)>>} ELSE {})}

C7_PhotoDateAddedParsed ==
    (op = "GetUserProfilePhoto" /\ HasPayload /\ response.data.kind = "object")
        => LET raw == response.data.object.DateAddedRaw
               written == {t \in PhotoTimes : raw \in PhotoTexts(t)}
           IN  /\ ~ret.panic
               /\ ret.profilephoto.DateAddedRaw = raw
               /\ IF written # {}
                  THEN ret.err = Nil /\ ret.profilephoto.DateAdded \in written
                  ELSE ret.err # Nil

C7_Witness ==
    /\ op = "GetUserProfilePhoto"
    /\ HasPayload
    /\ response.data.kind = "object"
    /\ response.data.object.DateAddedRaw
           = <<"1", "5", "/", "0", "6", "/", "2", "0", "2", "1", " ",
               "1", "3", ":", "4", "5">>
    /\ ret.err = Nil
    /\ ret.profilephoto.DateAdded = Time(2021, 6, 15, 13, 45)

(***************************************************************************)
(* C8: GetTrack, GetTrackTitle and GetTrackAlbum each make exactly one     *)
(* request per call, to /track/{id}, /track/{id}/title and                 *)
(* /track/{id}/album; a transport error or a decode error is returned      *)
(* unchanged with a nil/empty result, with no second request; and          *)
(* Track.GetAlbum does the same with the Track's own ID.                   *)
(***************************************************************************)
TrackPath(suffix) == "/track/" \o DecimalText[arg + 1] \o suffix

DecodeError(want, type) ==
    IF response.data.kind = "malformed" THEN ErrJSONSyntax
    ELSE IF response.data.kind \in {want, "null"} THEN Nil
    ELSE ErrJSONType(response.data.kind, type)

OneRequest(suffix, want, type, isEmpty) ==
    /\ requests = <<TrackPath(suffix)>>
    /\ ~Succeeded => (~ret.panic /\ ret.err = response.err /\ isEmpty)
    /\ HasPayload => (~ret.panic /\ ret.err = DecodeError(want, type))
    /\ (HasPayload /\ DecodeError(want, type) # Nil) => isEmpty

C8_OneRequestErrorsUnchanged ==
    /\ op = "GetTrack"
           => OneRequest("", "object", "Track", ret.track.nil)
    /\ op = "GetTrackTitle"
           => OneRequest("/title", "string", "string", ret.title = "")
    /\ op = "GetTrackAlbum"
           => OneRequest("/album", "object", "Album", ret.album.nil)
    /\ op = "GetAlbum"
           => /\ arg = track.ID
              /\ OneRequest("/album", "object", "Album", ret.album.nil)

C8_Witness ==
    /\ op = "GetTrackTitle"
    /\ arg = 12
    /\ requests = <<"/track/12/title">>
    /\ HasPayload
    /\ response.data.kind = "malformed"
    /\ ret.err = ErrJSONSyntax
    /\ ret.title = ""

(***************************************************************************)
(* C9: in GetUserOfficerships the first date-parse error met while going   *)
(* through the decoded entries in order is returned at once: the error     *)
(* returned is that of the first entry whose parsing fails, the entries    *)
(* before it keep their parsed dates, and no entry after it has its dates  *)
(* populated.                                                              *)
(***************************************************************************)
C9_FirstParseErrorReturned ==
    (op = "GetUserOfficerships" /\ HasPayload /\ response.data.kind = "array")
        => LET in == response.data.array
               out == ret.officerships
               failing == {k \in 1..Len(in) : ParseEntryDates(in[k]).err # Nil}
           IN  /\ ~ret.panic
               /\ Len(out) = Len(in)
               /\ IF failing = {}
                  THEN /\ ret.err = Nil
                       /\ \A i \in 1..Len(in) :
                              out[i] = ParseEntryDates(in[i]).entry
                  ELSE LET k == CHOOSE k \in failing : \A j \in failing : k <= j
                       IN  /\ ret.err = ParseEntryDates(in[k]).err
                           /\ \A i \in 1..(k - 1) :
                                  out[i] = ParseEntryDates(in[i]).entry
                           /\ \A i \in (k + 1)..Len(in) :
                                  /\ out[i] = in[i]
                                  /\ out[i].FromDate = ZeroTime
                                  /\ out[i].TillDate = ZeroTime

C9_Witness ==
    /\ op = "GetUserOfficerships"
    /\ HasPayload
    /\ response.data.kind = "array"
    /\ Len(response.data.array) = 3
    /\ response.data.array[1].FromDateRaw = Date_2020_01_01
    /\ response.data.array[2].FromDateRaw = Date_2021_13_01
    /\ response.data.array[3].FromDateRaw = Date_2021_12_31
    /\ response.data.array[3].TillDateRaw = <<>>
    /\ ret.err = "parsing time 2021-13-01: month out of range"
    /\ ret.officerships[1].FromDate = Time(2020, 1, 1, 0, 0)
    /\ ret.officerships[3].FromDate = ZeroTime

====
